---- MODULE Spec2Model ----
(***************************************************************************)
(* A model of the aisdi maps library: TreeMap (an unbalanced binary search *)
(* tree with parent links, src/unnamed/part_000) and HashMap (11 buckets   *)
(* of std::list, src/src/HashMap.h), with their bidirectional iterators.   *)
(*                                                                         *)
(* Tree nodes live in a heap of cells addressed by small integers; 0 is    *)
(* nullptr.  A deleted cell is marked free; a node that is dropped from    *)
(* the tree without being deleted stays allocated (a leak).                *)
(* A std::list node is identified by the key it stores (keys are unique in *)
(* a bucket), so a list iterator is a pair (list index, key or End).       *)
(* size_t arithmetic is modulo 2^64; the model stores the representative   *)
(* nearest zero, so -1 stands for 2^64 - 1.                                *)
(***************************************************************************)
EXTENDS Integers, Sequences, FiniteSets, TLC

\* ---------------------------------------------------------------- bounds
MaxKey == 3
MaxVal == 1
MaxLeak == 1
MaxSize == 3
MaxChain == 2
MaxBucketLen == 3

\* ------------------------------------------------------ program constants
MAP_SIZE == 11
Null == 0
DefaultValue == 0
\* strlen("Map does not contain key: ")
MessageLen == 26

Maps == {1, 2}
TreeKeys == 1..MaxKey
Values == 0..MaxVal
NodeIds == 1..(MaxKey + MaxLeak)

VARIABLES impl, live, heap, tm, hm, it, last

vars == <<impl, live, heap, tm, hm, it, last>>

\* ------------------------------------------------------------- the heap
FreeCell ==
    [alloc |-> FALSE, key |-> 0, value |-> 0,
     parent |-> Null, leftChild |-> Null, rightChild |-> Null]

TreeNode(k, v, p) ==
    [alloc |-> TRUE, key |-> k, value |-> v,
     parent |-> p, leftChild |-> Null, rightChild |-> Null]

HasFree(h) == \E n \in NodeIds : ~h[n].alloc

\* operator new: any free cell will do, since the program never compares
\* addresses for order; the model takes the cell `hint` when it is free and
\* the lowest free cell otherwise.
new(h, hint) ==
    IF ~h[hint].alloc THEN hint
    ELSE CHOOSE n \in NodeIds :
            ~h[n].alloc /\ \A j \in NodeIds : j < n => h[j].alloc

Hint(m, key) == key

\* delete: the cell is free afterwards and its content is indeterminate.
Scrub(h) == [n \in NodeIds |-> IF h[n].alloc THEN h[n] ELSE FreeCell]

\* ---------------------------------------------------------- TreeMap
EmptyTree == [root |-> Null, size |-> 0]

RECURSIVE Leftmost(_, _)
Leftmost(h, e) ==
    IF h[e].leftChild # Null THEN Leftmost(h, h[e].leftChild) ELSE e

\* A search for the maximum that stops at the node it starts from.
RightmostNoDescent(h, e) == e

RECURSIVE Rightmost(_, _)
Rightmost(h, e) ==
    IF h[e].rightChild # Null THEN Rightmost(h, h[e].rightChild) ELSE e

minElement(h, t) == IF t.root = Null THEN Null ELSE Leftmost(h, t.root)

maxElement(h, t) == IF t.root = Null THEN Null ELSE Rightmost(h, t.root)

TreeMap_getSize(t) == t.size

TreeMap_isEmpty(t) == TreeMap_getSize(t) = 0

RECURSIVE findNodeFrom(_, _, _)
findNodeFrom(h, currentNode, key) ==
    IF currentNode = Null \/ h[currentNode].key = key THEN currentNode
    ELSE IF h[currentNode].key > key
         THEN findNodeFrom(h, h[currentNode].leftChild, key)
         ELSE findNodeFrom(h, h[currentNode].rightChild, key)

findNode(h, t, key) == findNodeFrom(h, t.root, key)

\* A search loop that turns right for a smaller key and left for a greater.
RECURSIVE DescendMirrored(_, _, _, _, _)
DescendMirrored(h, cur, parent, side, key) ==
    IF cur = Null THEN [found |-> Null, parent |-> parent, side |-> side]
    ELSE IF h[cur].key = key
         THEN [found |-> cur, parent |-> parent, side |-> side]
    ELSE IF h[cur].key > key
         THEN DescendMirrored(h, h[cur].rightChild, cur, "rightChild", key)
         ELSE DescendMirrored(h, h[cur].leftChild, cur, "leftChild", key)

\* The search loop of operator[]: the node holding key, or the slot
\* (parent, side) where the search fell off the tree.
RECURSIVE Descend(_, _, _, _, _)
Descend(h, cur, parent, side, key) ==
    IF cur = Null THEN [found |-> Null, parent |-> parent, side |-> side]
    ELSE IF h[cur].key = key
         THEN [found |-> cur, parent |-> parent, side |-> side]
    ELSE IF h[cur].key > key
         THEN Descend(h, h[cur].leftChild, cur, "leftChild", key)
         ELSE Descend(h, h[cur].rightChild, cur, "rightChild", key)

\* operator[]: the heap and map afterwards, the node whose value is
\* returned by reference, and whether a node was created.
TreeMap_index(h, t, key, hint) ==
    IF t.root = Null
    THEN LET n == new(h, hint) IN
         [heap |-> [h EXCEPT ![n] = TreeNode(key, DefaultValue, Null)],
          map |-> [root |-> n, size |-> t.size + 1],
          node |-> n, created |-> TRUE]
    ELSE LET d == Descend(h, t.root, Null, "root", key) IN
         IF d.found # Null
         THEN [heap |-> h, map |-> t, node |-> d.found, created |-> FALSE]
         ELSE LET n == new(h, hint)
                  h1 == [h EXCEPT ![n] = TreeNode(key, DefaultValue, d.parent)]
                  h2 == IF d.side = "leftChild"
                        THEN [h1 EXCEPT ![d.parent].leftChild = n]
                        ELSE [h1 EXCEPT ![d.parent].rightChild = n]
              IN [heap |-> h2, map |-> [t EXCEPT !.size = @ + 1],
                  node |-> n, created |-> TRUE]

\* Whether operator[] has to allocate.
TreeMap_indexAllocates(h, t, key) == findNode(h, t, key) = Null

\* remove(const_iterator) that forgets --size.
TreeMap_sizeNotDecremented(t) == t.size

\* --size at the end of remove(const_iterator)
TreeMap_sizeAfterRemove(t) == t.size - 1

\* remove(const_iterator) past its end() test: unlink nodeToDelete, putting
\* its right child (its left child when it has no right child) in its place.
TreeMap_removeNode(h, t, nodeToDelete) ==
    LET nd == h[nodeToDelete]
        leaf == nd.leftChild = Null /\ nd.rightChild = Null
        branch == IF nd.rightChild = Null THEN nd.leftChild ELSE nd.rightChild
        repl == IF leaf THEN Null ELSE branch
        h1 == IF leaf THEN h ELSE [h EXCEPT ![branch].parent = nd.parent]
        h2 == IF nd.parent = Null THEN h1
              ELSE IF h[nd.parent].leftChild = nodeToDelete
                   THEN [h1 EXCEPT ![nd.parent].leftChild = repl]
                   ELSE [h1 EXCEPT ![nd.parent].rightChild = repl]
    IN [heap |-> [h2 EXCEPT ![nodeToDelete] = FreeCell],
        map |-> [root |-> IF nd.parent = Null THEN repl ELSE t.root,
                 size |-> TreeMap_sizeAfterRemove(t)]]

\* ConstIterator::operator++ on a non-null currentNode: the new currentNode
\* and the cells whose fields the step reads.
RECURSIVE IncDown(_, _, _)
IncDown(h, cur, reads) ==
    IF h[cur].leftChild # Null
    THEN IncDown(h, h[cur].leftChild, reads \cup {cur})
    ELSE [node |-> cur, reads |-> reads \cup {cur}]

RECURSIVE IncUp(_, _, _)
IncUp(h, cur, reads) ==
    IF h[cur].parent # Null /\ h[h[cur].parent].rightChild = cur
    THEN IncUp(h, h[cur].parent, reads \cup {cur, h[cur].parent})
    ELSE [node |-> h[cur].parent,
          reads |-> reads \cup {cur} \cup
                    (IF h[cur].parent # Null THEN {h[cur].parent} ELSE {})]

\* operator++ that takes the right child itself as the successor.
TreeIt_incrementNoDescent(h, currentNode) ==
    IF h[currentNode].rightChild # Null
    THEN [node |-> h[currentNode].rightChild, reads |-> {currentNode}]
    ELSE IncUp(h, currentNode, {})

TreeIt_increment(h, currentNode) ==
    IF h[currentNode].rightChild # Null
    THEN IncDown(h, h[currentNode].rightChild, {currentNode})
    ELSE IncUp(h, currentNode, {})

\* ConstIterator::operator==
TreeIt_equal(a, b) == a.node = b.node

\* ConstIterator::operator--: the new currentNode and whether it throws.
RECURSIVE DecUp(_, _)
DecUp(h, cur) ==
    IF h[cur].parent # Null /\ h[h[cur].parent].leftChild = cur
    THEN DecUp(h, h[cur].parent)
    ELSE cur

\* operator-- without its test for an empty map.
TreeIt_decrementNoEmptyTest(h, t, currentNode) ==
    IF currentNode = Null
    THEN [node |-> maxElement(h, t), err |-> FALSE]
    ELSE IF h[currentNode].leftChild # Null
         THEN [node |-> Rightmost(h, h[currentNode].leftChild), err |-> FALSE]
    ELSE LET top == DecUp(h, currentNode) IN
         IF h[top].parent = Null
         THEN [node |-> currentNode, err |-> TRUE]
         ELSE [node |-> h[top].parent, err |-> FALSE]

TreeIt_decrement(h, t, currentNode) ==
    IF TreeMap_isEmpty(t) THEN [node |-> currentNode, err |-> TRUE]
    ELSE IF currentNode = Null
         THEN [node |-> maxElement(h, t), err |-> FALSE]
    ELSE IF h[currentNode].leftChild # Null
         THEN [node |-> Rightmost(h, h[currentNode].leftChild), err |-> FALSE]
    ELSE LET top == DecUp(h, currentNode) IN
         IF h[top].parent = Null
         THEN [node |-> currentNode, err |-> TRUE]
         ELSE [node |-> h[top].parent, err |-> FALSE]

\* clear(): walk the tree in order from begin(), deleting each node after
\* the iterator has stepped off it.  The cells keep their content while the
\* walk runs (what the walk reads when freed memory is still intact); uaf
\* says whether a step read a cell that had already been deleted.
RECURSIVE clearLoop(_, _, _)
clearLoop(h, node, uaf) ==
    IF node = Null THEN [heap |-> h, uaf |-> uaf]
    ELSE LET step == TreeIt_increment(h, node) IN
         clearLoop([h EXCEPT ![node].alloc = FALSE], step.node,
                   uaf \/ \E r \in step.reads : ~h[r].alloc)

TreeMap_clear(h, t) ==
    LET r == clearLoop(h, minElement(h, t), FALSE) IN
    [heap |-> Scrub(r.heap), map |-> EmptyTree, uaf |-> r.uaf]

\* fill(other): operator[](v.first) = v.second for every pair of other, in
\* other's iteration order (begin() to end() by operator++).
RECURSIVE TreeMap_fillFrom(_, _, _, _)
TreeMap_fillFrom(h, t, node, m) ==
    IF node = Null THEN [heap |-> h, map |-> t]
    ELSE LET r == TreeMap_index(h, t, h[node].key, Hint(m, h[node].key))
             h1 == [r.heap EXCEPT ![r.node].value = h[node].value]
         IN TreeMap_fillFrom(h1, r.map, TreeIt_increment(h, node).node, m)

\* A copy that takes over other's nodes instead of inserting its pairs.
TreeMap_fillShares(h, t, other, m) == [heap |-> h, map |-> other]

TreeMap_fill(h, t, other, m) == TreeMap_fillFrom(h, t, minElement(h, other), m)

\* The nodes reachable from a root through child links.
RECURSIVE Reach(_, _)
Reach(h, n) ==
    IF n = Null THEN {}
    ELSE {n} \cup Reach(h, h[n].leftChild) \cup Reach(h, h[n].rightChild)

\* valueOf(key) is (*find(key)).second: dereferencing throws on end().
TreeMap_valueOf(h, t, key) ==
    LET n == findNode(h, t, key) IN
    IF n = Null THEN [err |-> TRUE, value |-> DefaultValue]
    ELSE [err |-> FALSE, value |-> h[n].value]

\* operator==: equal sizes, then every pair of other is looked up with
\* valueOf, which throws when the key is missing.
RECURSIVE TreeMap_equalFrom(_, _, _)
TreeMap_equalFrom(h, t, node) ==
    IF node = Null THEN [err |-> FALSE, ret |-> TRUE]
    ELSE LET v == TreeMap_valueOf(h, t, h[node].key) IN
         IF v.err THEN [err |-> TRUE, ret |-> FALSE]
         ELSE IF v.value # h[node].value THEN [err |-> FALSE, ret |-> FALSE]
         ELSE TreeMap_equalFrom(h, t, TreeIt_increment(h, node).node)

TreeMap_equal(h, t, other) ==
    IF t.size # other.size THEN [err |-> FALSE, ret |-> FALSE]
    ELSE TreeMap_equalFrom(h, t, minElement(h, other))

\* ---------------------------------------------------------- HashMap
End == -1
BucketIds == 0..(MAP_SIZE - 1)
LastBucket == MAP_SIZE - 1
HashKeys == {LastBucket} \cup {MAP_SIZE * j : j \in 0..(MaxChain - 1)}

EmptyBuckets == [b \in BucketIds |-> <<>>]
EmptyHash == [buckets |-> EmptyBuckets, size |-> 0]

\* std::hash<int> is the identity (libstdc++, libc++).
findBucket(key) == key % MAP_SIZE

\* std::list, a node named by its key: begin(), find_if, ++, --, erase.
ListKeys(l) == {l[i].first : i \in 1..Len(l)}
ListPos(l, k) == CHOOSE i \in 1..Len(l) : l[i].first = k
ListBegin(l) == IF l = <<>> THEN End ELSE l[1].first
ListLast(l) == IF l = <<>> THEN End ELSE l[Len(l)].first
ListNext(l, k) ==
    IF k = End THEN ListBegin(l)
    ELSE IF ListPos(l, k) = Len(l) THEN End ELSE l[ListPos(l, k) + 1].first
ListPrev(l, k) ==
    IF k = End THEN ListLast(l)
    ELSE IF ListPos(l, k) = 1 THEN End ELSE l[ListPos(l, k) - 1].first
\* Decrementing begin() (also end() of an empty list) is undefined.
ListPrevUndefined(l, k) == k = ListBegin(l)
\* An erase that fills the hole with the last element.
ListEraseSwap(l, k) ==
    IF ListPos(l, k) = Len(l) THEN SubSeq(l, 1, Len(l) - 1)
    ELSE [i \in 1..(Len(l) - 1) |-> IF i = ListPos(l, k) THEN l[Len(l)] ELSE l[i]]

ListErase(l, k) == SelectSeq(l, LAMBDA p : p.first # k)
ListValue(l, k) == l[ListPos(l, k)].second

findInBucket(b, bucket, key) ==
    IF key \in ListKeys(b[bucket]) THEN key ELSE End

HashMap_getSize(t) == t.size

HashMap_isEmpty(t) == t.size = 0

\* A next() that never leaves its bucket.
HashIt_nextStays(b, i) == i

\* ConstIterator::next(): skip forward while iter is currentBucket's end()
\* and currentBucket is not the last bucket.
RECURSIVE HashIt_next(_, _)
HashIt_next(b, i) ==
    IF i.ib = i.cb /\ i.k = End /\ i.cb # LastBucket
    THEN HashIt_next(b, [cb |-> i.cb + 1, ib |-> i.cb + 1,
                         k |-> ListBegin(b[i.cb + 1])])
    ELSE i

\* The ConstIterator constructor, from a bucket and an iterator of its list.
HashIt_make(b, currentBucket, k) ==
    LET i == [cb |-> currentBucket, ib |-> currentBucket, k |-> k] IN
    IF k = End THEN HashIt_next(b, i) ELSE i

\* ConstIterator::operator==
HashIt_equal(a, b) == a.cb = b.cb /\ a.ib = b.ib /\ a.k = b.k

HashIt_isEnd(i) == i.ib = LastBucket /\ i.k = End

HashMap_begin(b) == HashIt_make(b, 0, ListBegin(b[0]))

HashMap_end(b) == HashIt_make(b, LastBucket, End)

HashMap_find(b, key) ==
    HashIt_make(b, findBucket(key), findInBucket(b, findBucket(key), key))

\* operator++ past its isEnd() test.
HashIt_increment(b, i) ==
    HashIt_next(b, [cb |-> i.cb, ib |-> i.ib, k |-> ListNext(b[i.ib], i.k)])

\* operator--: the iterator afterwards, whether it throws, and whether it
\* decrements a list iterator that is at its list's begin() (undefined).
RECURSIVE HashIt_backToNonEmpty(_, _)
HashIt_backToNonEmpty(b, cb) ==
    IF b[cb] = <<>> /\ cb # 0 THEN HashIt_backToNonEmpty(b, cb - 1) ELSE cb

HashIt_decrement(b, i) ==
    IF i.ib = i.cb /\ i.k = ListBegin(b[i.cb])
    THEN LET cb == HashIt_backToNonEmpty(b, i.cb) IN
         IF b[cb] = <<>>
         THEN [it |-> [cb |-> cb, ib |-> i.ib, k |-> i.k],
               err |-> TRUE, ub |-> FALSE]
         ELSE [it |-> [cb |-> cb, ib |-> cb, k |-> ListLast(b[cb])],
               err |-> FALSE, ub |-> FALSE]
    ELSE [it |-> [cb |-> i.cb, ib |-> i.ib, k |-> ListPrev(b[i.ib], i.k)],
          err |-> FALSE, ub |-> ListPrevUndefined(b[i.ib], i.k)]

\* operator[] that appends a pair without looking for the key.
HashMap_indexAlwaysAppends(t, key) ==
    [map |-> [buckets |-> [t.buckets EXCEPT ![findBucket(key)] =
                  Append(@, [first |-> key, second |-> DefaultValue])],
              size |-> t.size + 1],
     created |-> TRUE]

\* operator[]: the map afterwards and whether a pair was appended.
HashMap_index(t, key) ==
    LET bucket == findBucket(key) IN
    IF findInBucket(t.buckets, bucket, key) = End
    THEN [map |-> [buckets |-> [t.buckets EXCEPT ![bucket] =
                        Append(@, [first |-> key, second |-> DefaultValue])],
                   size |-> t.size + 1],
          created |-> TRUE]
    ELSE [map |-> t, created |-> FALSE]

HashMap_store(t, key, v) ==
    [t EXCEPT !.buckets[findBucket(key)][ListPos(t.buckets[findBucket(key)], key)].second = v]

\* The argument of the throw expressions of findOrThrow and remove(key),
\* "Map does not contain key: " + key, is for an int key the address key
\* characters into the literal.  It is a C string only for keys from 0 to
\* the literal's length; for any other key forming or reading it is
\* undefined.
MessageDefined(key) == key \in 0..MessageLen

\* A key past the literal; it is looked up and never stored.
FarKey == MessageLen + 1

LookupKeys == HashKeys \cup {FarKey}

\* valueOf(key) is findOrThrow(key).second.  ub: the throw expression is
\* undefined.
findOrThrow(b, key) ==
    LET bucket == findBucket(key) IN
    IF key \in ListKeys(b[bucket])
    THEN [err |-> FALSE, value |-> ListValue(b[bucket], key), ub |-> FALSE]
    ELSE [err |-> TRUE, value |-> DefaultValue, ub |-> ~MessageDefined(key)]

\* remove(const key_type &)
HashMap_removeKey(t, key) ==
    LET bucket == findBucket(key) IN
    IF findInBucket(t.buckets, bucket, key) = End
    THEN [map |-> t, err |-> TRUE, ub |-> ~MessageDefined(key)]
    ELSE [map |-> [buckets |-> [t.buckets EXCEPT ![bucket] = ListErase(@, key)],
                   size |-> t.size - 1],
          err |-> FALSE, ub |-> FALSE]

\* remove(const const_iterator &): erase it.iter from it.currentBucket.
\* Erasing a list's end() or an iterator of another list is undefined; a
\* node-based list then unlinks the node from the list that holds it.
HashMap_removeIt(t, i) ==
    IF HashIt_equal(i, HashMap_end(t.buckets)) THEN [map |-> t, err |-> TRUE, ub |-> FALSE]
    ELSE [map |-> [buckets |-> [t.buckets EXCEPT ![i.ib] = ListErase(@, i.k)],
                   size |-> t.size - 1],
          err |-> FALSE, ub |-> (i.ib # i.cb \/ i.k = End)]

\* fill(begin, end): operator[](value.first) = value.second for every pair
\* from begin up to end, stepping with operator++.
RECURSIVE HashMap_fillFrom(_, _, _)
HashMap_fillFrom(t, ob, i) ==
    IF HashIt_equal(i, HashMap_end(ob)) THEN t
    ELSE LET key == i.k
             v == ListValue(ob[i.ib], key)
         IN HashMap_fillFrom(HashMap_store(HashMap_index(t, key).map, key, v),
                             ob, HashIt_increment(ob, i))

HashMap_fill(t, ob) == HashMap_fillFrom(t, ob, HashMap_begin(ob))

\* operator=(const HashMap &) past its self-assignment test.
HashMap_copyAssign(t, other) ==
    HashMap_fill([t EXCEPT !.size = 0], other.buckets)

\* operator==
HashMap_equal(t, other) ==
    IF t.size # other.size THEN FALSE ELSE t.buckets = other.buckets

\* ------------------------------------------------------- the state machine
\* impl: the container the caller instantiated.  live: the map objects that
\* have been constructed.  heap, tm: the tree nodes and each TreeMap's root
\* and size.  hm: each HashMap's buckets and size.  it: the caller's
\* iterator (m = 0: none).  last: the last call and what it returned or
\* threw (err: std::out_of_range).
NoIt == [m |-> 0, node |-> Null, cb |-> 0, ib |-> 0, k |-> End]

TreeIt(m, node) == [m |-> m, node |-> node, cb |-> 0, ib |-> 0, k |-> End]

HashIt(m, i) == [m |-> m, node |-> Null, cb |-> i.cb, ib |-> i.ib, k |-> i.k]

Last(op, m, key, err, created, ret) ==
    [op |-> op, m |-> m, key |-> key, err |-> err, created |-> created,
     ret |-> ret]

Running == last.op # "crash"

Crash ==
    /\ last' = Last("crash", 0, 0, FALSE, FALSE, 0)
    /\ UNCHANGED <<impl, live, heap, tm, hm, it>>

\* The program faults while building the exception of a failed lookup of
\* key in map m.
LookupCrash(m, key) ==
    /\ last' = Last("crash", m, key, FALSE, FALSE, 0)
    /\ UNCHANGED <<impl, live, heap, tm, hm, it>>

Init ==
    /\ impl \in {"TreeMap", "HashMap"}
    /\ live = {1}
    /\ heap = [n \in NodeIds |-> FreeCell]
    /\ tm = [m \in Maps |-> EmptyTree]
    /\ hm = [m \in Maps |-> EmptyHash]
    /\ it = NoIt
    /\ last = Last("construct", 1, 0, FALSE, FALSE, 0)

\* The caller's iterator refers to an element of its map or is end().
TreeIt_valid ==
    /\ it.m \in live
    /\ it.node = Null \/ it.node \in Reach(heap, tm[it.m].root)

HashIt_valid ==
    /\ it.m \in live
    /\ it.k = End \/ it.k \in ListKeys(hm[it.m].buckets[it.ib])

\* ---- TreeMap calls
TreeIndex(m, key) ==
    /\ Running /\ impl = "TreeMap" /\ m \in live
    /\ TreeMap_indexAllocates(heap, tm[m], key)
          => HasFree(heap) /\ tm[m].size < MaxSize
    /\ LET r == TreeMap_index(heap, tm[m], key, Hint(m, key)) IN
       /\ heap' = r.heap
       /\ tm' = [tm EXCEPT ![m] = r.map]
       /\ last' = Last("index", m, key, FALSE, r.created, r.heap[r.node].value)
    /\ UNCHANGED <<impl, live, hm, it>>

\* m[key] = v
TreeAssign(m, key, v) ==
    /\ Running /\ impl = "TreeMap" /\ m \in live
    /\ TreeMap_indexAllocates(heap, tm[m], key)
          => HasFree(heap) /\ tm[m].size < MaxSize
    /\ LET r == TreeMap_index(heap, tm[m], key, Hint(m, key)) IN
       /\ heap' = [r.heap EXCEPT ![r.node].value = v]
       /\ tm' = [tm EXCEPT ![m] = r.map]
       /\ last' = Last("assign", m, key, FALSE, r.created, v)
    /\ UNCHANGED <<impl, live, hm, it>>

TreeValueOf(m, key) ==
    /\ Running /\ impl = "TreeMap" /\ m \in live
    /\ LET r == TreeMap_valueOf(heap, tm[m], key) IN
       last' = Last("valueOf", m, key, r.err, FALSE, r.value)
    /\ UNCHANGED <<impl, live, heap, tm, hm, it>>

TreeFind(m, key) ==
    /\ Running /\ impl = "TreeMap" /\ m \in live
    /\ it' = TreeIt(m, findNode(heap, tm[m], key))
    /\ last' = Last("find", m, key, FALSE, FALSE, 0)
    /\ UNCHANGED <<impl, live, heap, tm, hm>>

TreeBegin(m) ==
    /\ Running /\ impl = "TreeMap" /\ m \in live
    /\ it' = TreeIt(m, minElement(heap, tm[m]))
    /\ last' = Last("begin", m, 0, FALSE, FALSE, 0)
    /\ UNCHANGED <<impl, live, heap, tm, hm>>

TreeEnd(m) ==
    /\ Running /\ impl = "TreeMap" /\ m \in live
    /\ it' = TreeIt(m, Null)
    /\ last' = Last("end", m, 0, FALSE, FALSE, 0)
    /\ UNCHANGED <<impl, live, heap, tm, hm>>

\* ++it
TreeInc ==
    /\ Running /\ impl = "TreeMap" /\ TreeIt_valid
    /\ IF it.node = Null
       THEN /\ last' = Last("inc", it.m, 0, TRUE, FALSE, 0)
            /\ it' = it
       ELSE /\ it' = TreeIt(it.m, TreeIt_increment(heap, it.node).node)
            /\ last' = Last("inc", it.m, 0, FALSE, FALSE, 0)
    /\ UNCHANGED <<impl, live, heap, tm, hm>>

\* --it
TreeDec ==
    /\ Running /\ impl = "TreeMap" /\ TreeIt_valid
    /\ LET r == TreeIt_decrement(heap, tm[it.m], it.node) IN
       /\ it' = TreeIt(it.m, r.node)
       /\ last' = Last("dec", it.m, 0, r.err, FALSE, 0)
    /\ UNCHANGED <<impl, live, heap, tm, hm>>

\* *it
TreeDeref ==
    /\ Running /\ impl = "TreeMap" /\ TreeIt_valid
    /\ last' = IF it.node = Null
               THEN Last("deref", it.m, 0, TRUE, FALSE, 0)
               ELSE Last("deref", it.m, heap[it.node].key, FALSE, FALSE,
                         heap[it.node].value)
    /\ UNCHANGED <<impl, live, heap, tm, hm, it>>

\* remove(it); the iterator is invalid afterwards and is dropped.
TreeRemoveIt ==
    /\ Running /\ impl = "TreeMap" /\ TreeIt_valid
    /\ IF TreeIt_equal(it, TreeIt(it.m, Null))
       THEN /\ last' = Last("removeIt", it.m, 0, TRUE, FALSE, 0)
            /\ UNCHANGED <<heap, tm, it>>
       ELSE LET r == TreeMap_removeNode(heap, tm[it.m], it.node) IN
            /\ heap' = r.heap
            /\ tm' = [tm EXCEPT ![it.m] = r.map]
            /\ last' = Last("removeIt", it.m, heap[it.node].key, FALSE, FALSE, 0)
            /\ it' = NoIt
    /\ UNCHANGED <<impl, live, hm>>

\* remove(key) is remove(find(key)); an iterator at the removed node is
\* invalid afterwards and is dropped.
TreeRemoveKey(m, key) ==
    /\ Running /\ impl = "TreeMap" /\ m \in live
    /\ LET n == findNode(heap, tm[m], key) IN
       IF n = Null
       THEN /\ last' = Last("removeKey", m, key, TRUE, FALSE, 0)
            /\ UNCHANGED <<heap, tm, it>>
       ELSE LET r == TreeMap_removeNode(heap, tm[m], n) IN
            /\ heap' = r.heap
            /\ tm' = [tm EXCEPT ![m] = r.map]
            /\ last' = Last("removeKey", m, key, FALSE, FALSE, 0)
            /\ it' = IF it.m = m /\ it.node = n THEN NoIt ELSE it
    /\ UNCHANGED <<impl, live, hm>>

\* ---- HashMap calls
HashIndex(m, key) ==
    /\ Running /\ impl = "HashMap" /\ m \in live
    /\ HashMap_index(hm[m], key).created => hm[m].size < MaxSize
    /\ LET r == HashMap_index(hm[m], key) IN
       /\ hm' = [hm EXCEPT ![m] = r.map]
       /\ last' = Last("index", m, key, FALSE, r.created,
                       findOrThrow(r.map.buckets, key).value)
    /\ UNCHANGED <<impl, live, heap, tm, it>>

\* m[key] = v
HashAssign(m, key, v) ==
    /\ Running /\ impl = "HashMap" /\ m \in live
    /\ HashMap_index(hm[m], key).created => hm[m].size < MaxSize
    /\ LET r == HashMap_index(hm[m], key) IN
       /\ hm' = [hm EXCEPT ![m] = HashMap_store(r.map, key, v)]
       /\ last' = Last("assign", m, key, FALSE, r.created, v)
    /\ UNCHANGED <<impl, live, heap, tm, it>>

\* When the throw expression is undefined the call throws std::out_of_range
\* with whatever the address holds, or faults.
HashValueOf(m, key) ==
    /\ Running /\ impl = "HashMap" /\ m \in live
    /\ LET r == findOrThrow(hm[m].buckets, key) IN
       \/ /\ last' = Last("valueOf", m, key, r.err, FALSE, r.value)
          /\ UNCHANGED <<impl, live, heap, tm, hm, it>>
       \/ /\ r.ub
          /\ LookupCrash(m, key)

HashFind(m, key) ==
    /\ Running /\ impl = "HashMap" /\ m \in live
    /\ it' = HashIt(m, HashMap_find(hm[m].buckets, key))
    /\ last' = Last("find", m, key, FALSE, FALSE, 0)
    /\ UNCHANGED <<impl, live, heap, tm, hm>>

HashBegin(m) ==
    /\ Running /\ impl = "HashMap" /\ m \in live
    /\ it' = HashIt(m, HashMap_begin(hm[m].buckets))
    /\ last' = Last("begin", m, 0, FALSE, FALSE, 0)
    /\ UNCHANGED <<impl, live, heap, tm, hm>>

HashEnd(m) ==
    /\ Running /\ impl = "HashMap" /\ m \in live
    /\ it' = HashIt(m, HashMap_end(hm[m].buckets))
    /\ last' = Last("end", m, 0, FALSE, FALSE, 0)
    /\ UNCHANGED <<impl, live, heap, tm, hm>>

\* ++it
HashInc ==
    /\ Running /\ impl = "HashMap" /\ HashIt_valid
    /\ IF HashIt_isEnd(it)
       THEN /\ last' = Last("inc", it.m, 0, TRUE, FALSE, 0)
            /\ it' = it
       ELSE /\ it' = HashIt(it.m, HashIt_increment(hm[it.m].buckets, it))
            /\ last' = Last("inc", it.m, 0, FALSE, FALSE, 0)
    /\ UNCHANGED <<impl, live, heap, tm, hm>>

\* --it; decrementing a list's begin() is undefined: it crashes, or the
\* circular list hands back its end().
HashDec ==
    /\ Running /\ impl = "HashMap" /\ HashIt_valid
    /\ LET r == HashIt_decrement(hm[it.m].buckets, it) IN
       \/ /\ it' = HashIt(it.m, r.it)
          /\ last' = Last("dec", it.m, 0, r.err, FALSE, 0)
          /\ UNCHANGED <<impl, live, heap, tm, hm>>
       \/ /\ r.ub
          /\ Crash

\* *it
HashDeref ==
    /\ Running /\ impl = "HashMap" /\ HashIt_valid
    /\ last' = IF HashIt_isEnd(it)
               THEN Last("deref", it.m, 0, TRUE, FALSE, 0)
               ELSE Last("deref", it.m, it.k, FALSE, FALSE,
                         ListValue(hm[it.m].buckets[it.ib], it.k))
    /\ UNCHANGED <<impl, live, heap, tm, hm, it>>

\* remove(it); the iterator is invalid afterwards and is dropped.  Erasing
\* what is not an element of currentBucket is undefined: it crashes, or (for
\* a node of another list; a list's end() is no node and cannot be freed)
\* the node is unlinked from the list that holds it.
HashRemoveIt ==
    /\ Running /\ impl = "HashMap" /\ HashIt_valid
    /\ LET r == HashMap_removeIt(hm[it.m], it) IN
       \/ /\ ~(r.ub /\ it.k = End)
          /\ hm' = [hm EXCEPT ![it.m] = r.map]
          /\ last' = Last("removeIt", it.m, IF r.err THEN 0 ELSE it.k,
                          r.err, FALSE, 0)
          /\ it' = IF r.err THEN it ELSE NoIt
          /\ UNCHANGED <<impl, live, heap, tm>>
       \/ /\ r.ub
          /\ Crash

\* remove(key); an iterator at the removed pair is invalid afterwards and
\* is dropped.
HashRemoveKey(m, key) ==
    /\ Running /\ impl = "HashMap" /\ m \in live
    /\ LET r == HashMap_removeKey(hm[m], key) IN
       \/ /\ hm' = [hm EXCEPT ![m] = r.map]
          /\ last' = Last("removeKey", m, key, r.err, FALSE, 0)
          /\ it' = IF ~r.err /\ it.m = m /\ it.k = key THEN NoIt ELSE it
          /\ UNCHANGED <<impl, live, heap, tm>>
       \/ /\ r.ub
          /\ LookupCrash(m, key)

\* ---- the specification of one map and its iterator
TreeCall ==
    \/ \E key \in TreeKeys : TreeIndex(1, key)
    \/ \E key \in TreeKeys, v \in Values : TreeAssign(1, key, v)
    \/ \E key \in TreeKeys : TreeValueOf(1, key)
    \/ \E key \in TreeKeys : TreeFind(1, key)
    \/ \E key \in TreeKeys : TreeRemoveKey(1, key)
    \/ TreeBegin(1)
    \/ TreeEnd(1)
    \/ TreeInc
    \/ TreeDec
    \/ TreeDeref
    \/ TreeRemoveIt

HashCall ==
    \/ \E key \in HashKeys : HashIndex(1, key)
    \/ \E key \in HashKeys, v \in Values : HashAssign(1, key, v)
    \/ \E key \in LookupKeys : HashValueOf(1, key)
    \/ \E key \in HashKeys : HashFind(1, key)
    \/ \E key \in LookupKeys : HashRemoveKey(1, key)
    \/ HashBegin(1)
    \/ HashEnd(1)
    \/ HashInc
    \/ HashDec
    \/ HashDeref
    \/ HashRemoveIt

Next == TreeCall \/ HashCall

Spec == Init /\ [][Next]_vars

\* ---- two maps: construction, assignment, comparison
FreeCells(h) == {n \in NodeIds : ~h[n].alloc}

\* TreeMap(TreeMap &&) and the tail of operator=(TreeMap &&): take root and
\* size, null the source's root.
TreeMap_moveFrom(other) ==
    [map |-> [root |-> other.root, size |-> other.size],
     other |-> [other EXCEPT !.root = Null]]

\* HashMap(HashMap &&) and operator=(HashMap &&): move-assign the array of
\* lists (each source list is left empty) and copy size.
HashMap_moveFrom(other) ==
    [map |-> [buckets |-> other.buckets, size |-> other.size],
     other |-> [other EXCEPT !.buckets = EmptyBuckets]]

\* TreeMap() / HashMap()
Construct(m) ==
    /\ Running /\ m \notin live
    /\ live' = live \cup {m}
    /\ tm' = [tm EXCEPT ![m] = EmptyTree]
    /\ hm' = [hm EXCEPT ![m] = EmptyHash]
    /\ last' = Last("construct", m, 0, FALSE, FALSE, 0)
    /\ UNCHANGED <<impl, heap, it>>

\* TreeMap(const TreeMap &other)
TreeCopyConstruct(m, o) ==
    /\ Running /\ impl = "TreeMap" /\ m \notin live /\ o \in live
    /\ Cardinality(Reach(heap, tm[o].root)) <= Cardinality(FreeCells(heap))
    /\ LET f == TreeMap_fill(heap, EmptyTree, tm[o], m) IN
       /\ heap' = f.heap
       /\ tm' = [tm EXCEPT ![m] = f.map]
    /\ live' = live \cup {m}
    /\ last' = Last("copyConstruct", m, o, FALSE, FALSE, 0)
    /\ UNCHANGED <<impl, hm, it>>

\* TreeMap(TreeMap &&other)
TreeMoveConstruct(m, o) ==
    /\ Running /\ impl = "TreeMap" /\ m \notin live /\ o \in live
    /\ LET r == TreeMap_moveFrom(tm[o]) IN
       tm' = [tm EXCEPT ![m] = r.map, ![o] = r.other]
    /\ live' = live \cup {m}
    /\ last' = Last("moveConstruct", m, o, FALSE, FALSE, 0)
    /\ UNCHANGED <<impl, heap, hm, it>>

\* m = o (copy); self-assignment returns at once and is not a step.
\* clear() may read deleted nodes: the call then either runs on as if the
\* freed memory were intact, or crashes.
TreeCopyAssign(m, o) ==
    /\ Running /\ impl = "TreeMap" /\ m \in live /\ o \in live /\ m # o
    /\ LET c == TreeMap_clear(heap, tm[m]) IN
       /\ Cardinality(Reach(heap, tm[o].root)) <= Cardinality(FreeCells(c.heap))
       /\ \/ LET f == TreeMap_fill(c.heap, c.map, tm[o], m) IN
             /\ heap' = f.heap
             /\ tm' = [tm EXCEPT ![m] = f.map]
             /\ last' = Last("copyAssign", m, o, FALSE, FALSE, 0)
             /\ UNCHANGED <<impl, live, hm, it>>
          \/ /\ c.uaf
             /\ Crash

\* m = std::move(o); self-assignment returns at once and is not a step.
TreeMoveAssign(m, o) ==
    /\ Running /\ impl = "TreeMap" /\ m \in live /\ o \in live /\ m # o
    /\ LET c == TreeMap_clear(heap, tm[m])
           r == TreeMap_moveFrom(tm[o])
       IN \/ /\ heap' = c.heap
             /\ tm' = [tm EXCEPT ![m] = r.map, ![o] = r.other]
             /\ last' = Last("moveAssign", m, o, FALSE, FALSE, 0)
             /\ UNCHANGED <<impl, live, hm, it>>
          \/ /\ c.uaf
             /\ Crash

\* ~TreeMap(): clear(), then the object is gone and with it the iterators
\* into it.  As in the assignments, a clear() that read deleted nodes
\* either runs on or crashes.
TreeDestroy(m) ==
    /\ Running /\ impl = "TreeMap" /\ m \in live
    /\ LET c == TreeMap_clear(heap, tm[m]) IN
       \/ /\ heap' = c.heap
          /\ tm' = [tm EXCEPT ![m] = c.map]
          /\ live' = live \ {m}
          /\ it' = IF it.m = m THEN NoIt ELSE it
          /\ last' = Last("destroy", m, 0, FALSE, FALSE, 0)
          /\ UNCHANGED <<impl, hm>>
       \/ /\ c.uaf
          /\ Crash

\* m == o
TreeEqual(m, o) ==
    /\ Running /\ impl = "TreeMap" /\ m \in live /\ o \in live
    /\ LET r == TreeMap_equal(heap, tm[m], tm[o]) IN
       last' = Last("equal", m, o, r.err, FALSE, IF r.ret THEN 1 ELSE 0)
    /\ UNCHANGED <<impl, live, heap, tm, hm, it>>

\* HashMap(const HashMap &other)
HashCopyConstruct(m, o) ==
    /\ Running /\ impl = "HashMap" /\ m \notin live /\ o \in live
    /\ hm' = [hm EXCEPT ![m] = HashMap_fill(EmptyHash, hm[o].buckets)]
    /\ live' = live \cup {m}
    /\ last' = Last("copyConstruct", m, o, FALSE, FALSE, 0)
    /\ UNCHANGED <<impl, heap, tm, it>>

\* HashMap(HashMap &&other)
HashMoveConstruct(m, o) ==
    /\ Running /\ impl = "HashMap" /\ m \notin live /\ o \in live
    /\ LET r == HashMap_moveFrom(hm[o]) IN
       hm' = [hm EXCEPT ![m] = r.map, ![o] = r.other]
    /\ live' = live \cup {m}
    /\ last' = Last("moveConstruct", m, o, FALSE, FALSE, 0)
    /\ UNCHANGED <<impl, heap, tm, it>>

\* m = o (copy); self-assignment returns at once and is not a step.
HashCopyAssign(m, o) ==
    /\ Running /\ impl = "HashMap" /\ m \in live /\ o \in live /\ m # o
    /\ hm' = [hm EXCEPT ![m] = HashMap_copyAssign(hm[m], hm[o])]
    /\ last' = Last("copyAssign", m, o, FALSE, FALSE, 0)
    /\ UNCHANGED <<impl, live, heap, tm, it>>

\* m = std::move(o); self-assignment returns at once and is not a step.
HashMoveAssign(m, o) ==
    /\ Running /\ impl = "HashMap" /\ m \in live /\ o \in live /\ m # o
    /\ LET r == HashMap_moveFrom(hm[o]) IN
       hm' = [hm EXCEPT ![m] = r.map, ![o] = r.other]
    /\ last' = Last("moveAssign", m, o, FALSE, FALSE, 0)
    /\ UNCHANGED <<impl, live, heap, tm, it>>

\* m == o
HashEqual(m, o) ==
    /\ Running /\ impl = "HashMap" /\ m \in live /\ o \in live
    /\ last' = Last("equal", m, o, FALSE, FALSE,
                    IF HashMap_equal(hm[m], hm[o]) THEN 1 ELSE 0)
    /\ UNCHANGED <<impl, live, heap, tm, hm, it>>

\* ---- the specification of two maps built by operator[] and compared
BuildNext ==
    \/ \E m \in Maps : Construct(m)
    \/ \E m \in Maps, key \in TreeKeys : TreeIndex(m, key)
    \/ \E m \in Maps, key \in TreeKeys, v \in Values : TreeAssign(m, key, v)
    \/ \E m \in Maps, o \in Maps : TreeEqual(m, o)
    \/ \E m \in Maps, key \in HashKeys : HashIndex(m, key)
    \/ \E m \in Maps, key \in HashKeys, v \in Values : HashAssign(m, key, v)
    \/ \E m \in Maps, o \in Maps : HashEqual(m, o)

SpecBuild == Init /\ [][BuildNext]_vars

\* ---- the specification of map 1 and a map 2 that is constructed from it
\* or assigned it
PairNext ==
    \/ \E m \in Maps : Construct(m)
    \/ \E m \in Maps, key \in TreeKeys : TreeIndex(m, key)
    \/ \E key \in TreeKeys, v \in Values : TreeAssign(1, key, v)
    \/ \E m \in Maps, key \in HashKeys : HashIndex(m, key)
    \/ \E key \in HashKeys, v \in Values : HashAssign(1, key, v)
    \/ TreeCopyConstruct(2, 1)
    \/ TreeMoveConstruct(2, 1)
    \/ TreeCopyAssign(2, 1)
    \/ TreeMoveAssign(2, 1)
    \/ HashCopyConstruct(2, 1)
    \/ HashMoveConstruct(2, 1)
    \/ HashCopyAssign(2, 1)
    \/ HashMoveAssign(2, 1)

SpecPair == Init /\ [][PairNext]_vars

\* ---- the specification of map 1, built first, and a copy of it (map 2)
\* that is then changed by insertions, stores and removals
CopyNext ==
    \/ 2 \notin live /\ \E key \in TreeKeys, v \in Values : TreeAssign(1, key, v)
    \/ 2 \notin live /\ \E key \in HashKeys, v \in Values : HashAssign(1, key, v)
    \/ TreeCopyConstruct(2, 1)
    \/ HashCopyConstruct(2, 1)
    \/ \E key \in TreeKeys : TreeIndex(2, key)
    \/ \E key \in TreeKeys, v \in Values : TreeAssign(2, key, v)
    \/ \E key \in TreeKeys : TreeRemoveKey(2, key)
    \/ \E key \in HashKeys : HashIndex(2, key)
    \/ \E key \in HashKeys, v \in Values : HashAssign(2, key, v)
    \/ \E key \in HashKeys : HashRemoveKey(2, key)

SpecCopy == Init /\ [][CopyNext]_vars

\* ---- the specification of one HashMap whose keys fill bucket 0 up to
\* MaxBucketLen deep and also fall into a middle and the last bucket
BucketKeys == {MAP_SIZE * j : j \in 0..(MaxBucketLen - 1)}

WideKeys == BucketKeys \cup {MAP_SIZE \div 2, LastBucket}

InitHash == Init /\ impl = "HashMap"

HashNext ==
    \/ \E key \in WideKeys : HashIndex(1, key)
    \/ \E key \in WideKeys : HashRemoveKey(1, key)
    \/ \E key \in WideKeys : HashFind(1, key)
    \/ HashBegin(1)
    \/ HashEnd(1)
    \/ HashInc
    \/ HashDec
    \/ HashRemoveIt

SpecHash == InitHash /\ [][HashNext]_vars

\* ---- the specification of one TreeMap: its shape and its iterator, with
\* every value left at the default
InitTree == Init /\ impl = "TreeMap"

TreeNext ==
    \/ \E key \in TreeKeys : TreeIndex(1, key)
    \/ \E key \in TreeKeys : TreeRemoveKey(1, key)
    \/ \E key \in TreeKeys : TreeFind(1, key)
    \/ TreeBegin(1)
    \/ TreeEnd(1)
    \/ TreeInc
    \/ TreeDec
    \/ TreeRemoveIt

SpecTree == InitTree /\ [][TreeNext]_vars

\* One TreeMap that only grows: insertions through operator[], and an
\* iterator walked over it in both directions.
GrowNext ==
    \/ \E key \in TreeKeys : TreeIndex(1, key)
    \/ \E key \in TreeKeys : TreeFind(1, key)
    \/ TreeBegin(1)
    \/ TreeEnd(1)
    \/ TreeInc
    \/ TreeDec

SpecGrow == InitTree /\ [][GrowNext]_vars

\* Two TreeMaps that are filled by insertion and then torn down: by the
\* destructor, or by an assignment to map 2, which clears it first.
ClearNext ==
    \/ \E m \in Maps : Construct(m)
    \/ \E m \in Maps, key \in TreeKeys : TreeIndex(m, key)
    \/ TreeCopyAssign(2, 1)
    \/ TreeMoveAssign(2, 1)
    \/ \E m \in Maps : TreeDestroy(m)

SpecClear == InitTree /\ [][ClearNext]_vars

\* ------------------------------------------------------------ the claims
Size(m) ==
    IF impl = "TreeMap" THEN TreeMap_getSize(tm[m]) ELSE HashMap_getSize(hm[m])

IsEmpty(m) ==
    IF impl = "TreeMap" THEN TreeMap_isEmpty(tm[m]) ELSE HashMap_isEmpty(hm[m])

\* The keys a HashMap stores, in whatever bucket.
HashStored(b) == UNION {ListKeys(b[bucket]) : bucket \in BucketIds}

\* The keys of a TreeMap's nodes, and the keys met by iterating from begin()
\* to end() with operator++.
TreeStored(h, t) == {h[n].key : n \in Reach(h, t.root)}

RECURSIVE InOrderFrom(_, _)
InOrderFrom(h, node) ==
    IF node = Null THEN <<>>
    ELSE <<h[node].key>> \o InOrderFrom(h, TreeIt_increment(h, node).node)

InOrderKeys(h, t) == InOrderFrom(h, minElement(h, t))

StrictlyIncreasing(s) == \A i \in 1..(Len(s) - 1) : s[i] < s[i + 1]

SortedInsert(s, k) ==
    IF \E i \in 1..Len(s) : s[i] = k THEN s
    ELSE SelectSeq(s, LAMBDA x : x < k) \o <<k>> \o SelectSeq(s, LAMBDA x : x > k)

IsBegin(i) ==
    IF impl = "TreeMap"
    THEN i.m = 1 /\ TreeIt_equal(i, TreeIt(1, minElement(heap, tm[1])))
    ELSE i.m = 1 /\ HashIt_equal(i, HashMap_begin(hm[1].buckets))

IsEnd(i) ==
    IF impl = "TreeMap"
    THEN i.m = 1 /\ TreeIt_equal(i, TreeIt(1, Null))
    ELSE i.m = 1 /\ HashIt_equal(i, HashMap_end(hm[1].buckets))

HasElements ==
    IF impl = "TreeMap" THEN tm[1].root # Null
    ELSE HashStored(hm[1].buckets) # {}

\* C1: in a TreeMap, a remove call that completes leaves every other key
\* that valueOf could retrieve before the call retrievable, with the same
\* value (stated for each single remove step; the original claim).
C1_RemoveKeepsOtherKeys ==
    [][(impl = "TreeMap" /\ last'.op \in {"removeKey", "removeIt"} /\ ~last'.err)
        => \A k \in TreeKeys \ {last'.key} :
              ~TreeMap_valueOf(heap, tm[1], k).err
              => TreeMap_valueOf(heap', tm'[1], k) = TreeMap_valueOf(heap, tm[1], k)]_vars

\* C2: in a HashMap, right after find(key) the returned iterator equals
\* end() when the key is not stored, and is at the key's pair when it is
\* (the original claim).
C2_FindAbsentIsEnd ==
    (impl = "HashMap" /\ last.op = "find")
    => IF last.key \in HashStored(hm[1].buckets)
       THEN ~HashIt_isEnd(it) /\ it.k = last.key /\ it.ib = findBucket(last.key)
            /\ it.cb = it.ib
       ELSE HashIt_equal(it, HashMap_end(hm[1].buckets))

\* C3: every operator[] call (plain or followed by a store) raises getSize()
\* by one when it created an entry and leaves it alone otherwise, and every
\* remove call lowers getSize() by one when it completed and leaves it alone
\* when it threw; the map starts with getSize() = 0.  Hence getSize() is the
\* number of creating operator[] calls minus the number of completed removes.
C3_SizeCountsCalls ==
    [][/\ last'.op \in {"index", "assign"}
          => Size(1)' = Size(1) + (IF last'.created THEN 1 ELSE 0)
       /\ last'.op \in {"removeKey", "removeIt"}
          => Size(1)' = Size(1) - (IF last'.err THEN 0 ELSE 1)]_vars

C3_Witness ==
    /\ last.op = "removeIt" /\ ~last.err
    /\ Size(1) = 1 /\ HasElements

\* C4: in a TreeMap, iterating from begin() to end() always meets strictly
\* increasing keys, and an operator[](key) call changes the keys met to the
\* keys met before plus key, each once and in increasing order.  From the
\* empty map, insertions therefore give exactly the inserted keys, sorted.
C4_InOrderIsSorted ==
    /\ [](impl = "TreeMap" => StrictlyIncreasing(InOrderKeys(heap, tm[1])))
    /\ [][(impl = "TreeMap" /\ last'.op \in {"index", "assign"})
           => InOrderKeys(heap', tm'[1]) =
                 SortedInsert(InOrderKeys(heap, tm[1]), last'.key)]_vars

C4_Witness ==
    /\ impl = "TreeMap" /\ last.op = "index" /\ last.created
    /\ InOrderKeys(heap, tm[1]) = <<1, 2, 3>>
    /\ heap[tm[1].root].leftChild # Null /\ heap[tm[1].root].rightChild # Null

\* C5: decrementing the iterator returned by begin() of a map that has
\* elements throws (the original claim).
C5_DecrementBeginThrows ==
    [][(last'.op = "dec" /\ IsBegin(it) /\ HasElements /\ ~IsEmpty(1))
        => last'.err]_vars

TreeContent(h, t) == {<<h[n].key, h[n].value>> : n \in Reach(h, t.root)}

HashContent(b) ==
    UNION {{<<b[bucket][j].first, b[bucket][j].second>> : j \in 1..Len(b[bucket])}
           : bucket \in BucketIds}

ContentIn(h, T, H, m) ==
    IF impl = "TreeMap" THEN TreeContent(h, T[m]) ELSE HashContent(H[m].buckets)

SizeIn(T, H, m) ==
    IF impl = "TreeMap" THEN TreeMap_getSize(T[m]) ELSE HashMap_getSize(H[m])

IsEmptyIn(T, H, m) ==
    IF impl = "TreeMap" THEN TreeMap_isEmpty(T[m]) ELSE HashMap_isEmpty(H[m])

EqualReturnsTrue(h, T, H, m, o) ==
    IF impl = "TreeMap"
    THEN TreeMap_equal(h, T[m], T[o]) = [err |-> FALSE, ret |-> TRUE]
    ELSE HashMap_equal(H[m], H[o])

\* C7: two HashMaps built by operator[] calls that hold the same key-value
\* pairs compare equal, in both directions (the original claim).
C7_SamePairsCompareEqual ==
    (impl = "HashMap" /\ live = Maps
        /\ HashContent(hm[1].buckets) = HashContent(hm[2].buckets))
    => HashMap_equal(hm[1], hm[2]) /\ HashMap_equal(hm[2], hm[1])

\* C8: TreeMap operator== never throws, and returns true exactly when the
\* sizes are equal and every pair of the right operand is a pair of the left
\* one (the original claim).
C8_TreeEqualIsTotal ==
    (impl = "TreeMap" /\ last.op = "equal")
    => /\ ~last.err
       /\ last.ret = 1 <=>
             /\ TreeMap_getSize(tm[last.m]) = TreeMap_getSize(tm[last.key])
             /\ TreeContent(heap, tm[last.key]) \subseteq TreeContent(heap, tm[last.m])

\* C9: a move construction or move assignment leaves the source with
\* getSize() = 0 and isEmpty(), and the destination with the source's former
\* pairs and getSize() (the original claim).
C9_MoveEmptiesSource ==
    [][last'.op \in {"moveConstruct", "moveAssign"}
        => /\ SizeIn(tm', hm', last'.key) = 0
           /\ IsEmptyIn(tm', hm', last'.key)
           /\ ContentIn(heap', tm', hm', last'.m) = ContentIn(heap, tm, hm, last'.key)
           /\ SizeIn(tm', hm', last'.m) = SizeIn(tm, hm, last'.key)]_vars

\* C10: after a copy assignment a = b the map a holds exactly b's pairs,
\* a.getSize() = b.getSize() and a == b (the original claim).
C10_CopyAssignCopies ==
    [][last'.op = "copyAssign"
        => /\ ContentIn(heap', tm', hm', last'.m) = ContentIn(heap', tm', hm', last'.key)
           /\ SizeIn(tm', hm', last'.m) = SizeIn(tm', hm', last'.key)
           /\ EqualReturnsTrue(heap', tm', hm', last'.m, last'.key)]_vars

\* C11: once map 2 has been copy-constructed from map 1, every insertion,
\* store and removal applied to map 2 leaves the pairs and getSize() of map 1
\* as they were.
C11_CopyIsIsolated ==
    [][(2 \in live /\ last'.m = 2 /\ last'.op \in {"index", "assign", "removeKey"})
        => /\ ContentIn(heap', tm', hm', 1) = ContentIn(heap, tm, hm, 1)
           /\ SizeIn(tm', hm', 1) = SizeIn(tm, hm, 1)]_vars

C11_Witness ==
    /\ last.op = "removeKey" /\ last.m = 2 /\ ~last.err
    /\ ContentIn(heap, tm, hm, 1) # {}
    /\ ContentIn(heap, tm, hm, 2) # {}
    /\ ContentIn(heap, tm, hm, 2) # ContentIn(heap, tm, hm, 1)

StoredKeys(h, T, H, m) ==
    IF impl = "TreeMap" THEN TreeStored(h, T[m]) ELSE HashStored(H[m].buckets)

\* C12: valueOf(key) and remove(key) with a key that is not in the map throw
\* and leave the map's pairs and getSize() unchanged, and such a call never
\* ends the program instead of throwing (the original claim).
C12_AbsentKeyThrows ==
    [][/\ (last'.op \in {"valueOf", "removeKey"}
            /\ last'.key \notin StoredKeys(heap, tm, hm, last'.m))
          => /\ last'.err
             /\ ContentIn(heap', tm', hm', last'.m) = ContentIn(heap, tm, hm, last'.m)
             /\ SizeIn(tm', hm', last'.m) = SizeIn(tm, hm, last'.m)
       /\ ~(last'.op = "crash" /\ last'.m \in Maps
             /\ last'.key \notin StoredKeys(heap, tm, hm, last'.m))]_vars

\* C13: operator[](key) on a map that contains key returns the entry's value
\* and changes neither getSize() nor any pair; on a map that does not contain
\* key it adds the pair (key, default value) and nothing else, raises
\* getSize() by one and returns the default value.
C13_IndexFrame ==
    [][last'.op = "index"
        => IF last'.key \in StoredKeys(heap, tm, hm, 1)
           THEN /\ <<last'.key, last'.ret>> \in ContentIn(heap, tm, hm, 1)
                /\ ContentIn(heap', tm', hm', 1) = ContentIn(heap, tm, hm, 1)
                /\ SizeIn(tm', hm', 1) = SizeIn(tm, hm, 1)
                /\ ~last'.created
           ELSE /\ last'.ret = DefaultValue
                /\ ContentIn(heap', tm', hm', 1) =
                      ContentIn(heap, tm, hm, 1) \cup {<<last'.key, DefaultValue>>}
                /\ Cardinality(ContentIn(heap', tm', hm', 1)) =
                      Cardinality(ContentIn(heap, tm, hm, 1)) + 1
                /\ SizeIn(tm', hm', 1) = SizeIn(tm, hm, 1) + 1
                /\ last'.created]_vars

C13_Witness ==
    /\ last.op = "index" /\ last.created
    /\ Cardinality(ContentIn(heap, tm, hm, 1)) = 3
    /\ \E p \in ContentIn(heap, tm, hm, 1) : p[2] # DefaultValue

KeySeq(l) == [i \in 1..Len(l) |-> l[i].first]

Before(seq, a, b) ==
    \E i \in 1..Len(seq), j \in 1..Len(seq) : i < j /\ seq[i] = a /\ seq[j] = b

\* C14: in a HashMap, an operator[] call that creates a pair puts its key
\* behind the keys already in its bucket and leaves every other bucket's
\* sequence alone, one that finds its key changes no sequence, and a removal
\* takes exactly its key out of its bucket and keeps the order of the keys
\* that remain.  Each bucket's keys are therefore in the order of their last
\* insertion.
C14_BucketOrder ==
    [][(impl = "HashMap" /\ last'.m = 1)
        => LET was == [b \in BucketIds |-> KeySeq(hm[1].buckets[b])]
               now == [b \in BucketIds |-> KeySeq(hm'[1].buckets[b])]
               bk == findBucket(last'.key)
           IN /\ (last'.op \in {"index", "assign"} /\ last'.created)
                 => now = [was EXCEPT ![bk] = Append(@, last'.key)]
              /\ (last'.op \in {"index", "assign"} /\ ~last'.created)
                 => now = was
              /\ (last'.op \in {"removeKey", "removeIt"} /\ ~last'.err)
                 => /\ \A b \in BucketIds \ {bk} : now[b] = was[b]
                    /\ Len(now[bk]) = Len(was[bk]) - 1
                    /\ \A i \in 1..Len(now[bk]) : now[bk][i] # last'.key
                    /\ \A i \in 1..Len(was[bk]), j \in 1..Len(was[bk]) :
                          (i < j /\ was[bk][i] # last'.key /\ was[bk][j] # last'.key)
                          => Before(now[bk], was[bk][i], was[bk][j])]_vars

C14_Witness ==
    /\ impl = "HashMap" /\ last.op = "removeKey" /\ ~last.err
    /\ last.key = MAP_SIZE
    /\ KeySeq(hm[1].buckets[0]) = <<2 * MAP_SIZE, 0>>

\* The keys of buckets from..LastBucket, bucket after bucket.
RECURSIVE FlatKeys(_, _)
FlatKeys(b, from) ==
    IF from > LastBucket THEN <<>> ELSE KeySeq(b[from]) \o FlatKeys(b, from + 1)

\* The key that follows k in seq, or End when k is the last one.
KeyAfter(seq, k) ==
    LET i == CHOOSE j \in 1..Len(seq) : seq[j] = k IN
    IF i = Len(seq) THEN End ELSE seq[i + 1]

\* The iterator is at an element of map 1.
AtElement ==
    /\ it.m = 1
    /\ IF impl = "TreeMap"
       THEN it.node # Null /\ it.node \in Reach(heap, tm[1].root)
       ELSE it.k # End /\ it.cb = it.ib /\ it.k \in ListKeys(hm[1].buckets[it.ib])

XKey == IF impl = "TreeMap" THEN heap[it.node].key ELSE it.k

\* C15: an operator[] call or a removal of another element leaves an
\* iterator at element x valid: x is still an element with the same pair,
\* its node is not destroyed, and operator++ from it reads no destroyed node
\* and arrives at the element that follows x in the map as it now is, or at
\* end() (the original claim).
C15_OtherIteratorsStayValid ==
    [][(AtElement /\ last'.m = 1 /\ last'.op \in {"index", "removeKey"}
            /\ ~last'.err /\ last'.key # XKey)
        => /\ it' = it
           /\ IF impl = "TreeMap"
              THEN /\ heap'[it.node].alloc
                   /\ it.node \in Reach(heap', tm'[1].root)
                   /\ heap'[it.node].key = heap[it.node].key
                   /\ heap'[it.node].value = heap[it.node].value
                   /\ LET step == TreeIt_increment(heap', it.node)
                          after == KeyAfter(InOrderKeys(heap', tm'[1]), XKey)
                      IN /\ \A r \in step.reads : heap'[r].alloc
                         /\ IF after = End THEN step.node = Null
                            ELSE step.node # Null /\ heap'[step.node].key = after
              ELSE /\ it.k \in ListKeys(hm'[1].buckets[it.ib])
                   /\ ListValue(hm'[1].buckets[it.ib], it.k) =
                         ListValue(hm[1].buckets[it.ib], it.k)
                   /\ LET step == HashIt_increment(hm'[1].buckets, it)
                          after == KeyAfter(FlatKeys(hm'[1].buckets, 0), it.k)
                      IN IF after = End
                         THEN HashIt_equal(step, HashMap_end(hm'[1].buckets))
                         ELSE step.k = after /\ step.cb = step.ib
                              /\ step.ib = findBucket(after)]_vars

\* The keys met from iterator i by at most fuel increments, stopping at
\* end(), and the iterator reached by n increments.
RECURSIVE HashWalk(_, _, _)
HashWalk(b, i, fuel) ==
    IF fuel = 0 \/ HashIt_equal(i, HashMap_end(b)) THEN <<>>
    ELSE <<i.k>> \o HashWalk(b, HashIt_increment(b, i), fuel - 1)

RECURSIVE HashAdvance(_, _, _)
HashAdvance(b, i, n) ==
    IF n = 0 THEN i ELSE HashAdvance(b, HashIt_increment(b, i), n - 1)

\* C16: in a HashMap, iterating from begin() meets the stored keys bucket by
\* bucket in increasing bucket index and in list order within a bucket, each
\* once, and is at end() after exactly as many increments as there are
\* entries; every operator++ step from an element arrives at the element that
\* follows it in this order, or at end() from the last one.
C16_ForwardIteration ==
    /\ [](impl = "HashMap"
          => LET b == hm[1].buckets
                 flat == FlatKeys(b, 0)
             IN /\ HashWalk(b, HashMap_begin(b), Len(flat) + 1) = flat
                /\ HashIt_equal(HashAdvance(b, HashMap_begin(b), Len(flat)),
                                HashMap_end(b))
                /\ \A n \in 0..(Len(flat) - 1) :
                      ~HashIt_equal(HashAdvance(b, HashMap_begin(b), n),
                                    HashMap_end(b)))
    /\ [][(impl = "HashMap" /\ AtElement /\ last'.op = "inc")
           => LET after == KeyAfter(FlatKeys(hm[1].buckets, 0), it.k) IN
              /\ ~last'.err
              /\ IF after = End
                 THEN HashIt_equal(it', HashMap_end(hm[1].buckets))
                 ELSE it'.k = after /\ it'.cb = it'.ib
                      /\ it'.ib = findBucket(after)]_vars

C16_Witness ==
    /\ impl = "HashMap" /\ last.op = "inc" /\ ~last.err
    /\ it.k = LastBucket /\ it.ib = LastBucket
    /\ KeySeq(hm[1].buckets[0]) = <<MAP_SIZE, 0>>

\* The last key of the nearest non-empty bucket before bucket from, or End
\* when every bucket before it is empty.
RECURSIVE LastKeyBefore(_, _)
LastKeyBefore(b, from) ==
    IF from = 0 THEN End
    ELSE IF b[from - 1] # <<>> THEN ListLast(b[from - 1])
    ELSE LastKeyBefore(b, from - 1)

\* The iterators at the elements of the map.
ElementIts(b) ==
    {[cb |-> findBucket(k), ib |-> findBucket(k), k |-> k] : k \in HashStored(b)}

\* C17: in a HashMap, decrementing the result of incrementing an iterator at
\* an element gives back that iterator, and operator-- from the first element
\* of a bucket that has a non-empty bucket before it moves to the last
\* element of the nearest such bucket (the original claim).
C17_DecrementMirrorsIncrement ==
    /\ [](impl = "HashMap"
          => \A i \in ElementIts(hm[1].buckets) :
                LET b == hm[1].buckets
                    d == HashIt_decrement(b, HashIt_increment(b, i))
                IN ~d.err /\ ~d.ub /\ HashIt_equal(d.it, i))
    /\ [][(impl = "HashMap" /\ AtElement /\ last'.op = "dec"
              /\ it.k = ListBegin(hm[1].buckets[it.ib])
              /\ LastKeyBefore(hm[1].buckets, it.ib) # End)
           => /\ ~last'.err
              /\ it'.k = LastKeyBefore(hm[1].buckets, it.ib)
              /\ it'.ib = findBucket(it'.k) /\ it'.cb = it'.ib
              /\ it'.ib # it.ib]_vars

\* C18: in a TreeMap, getSize() is the number of nodes reachable from the
\* root and the number of elements met from begin() to end() (the original
\* claim).
C18_SizeIsNodeCount ==
    impl = "TreeMap"
    => /\ TreeMap_getSize(tm[1]) = Cardinality(Reach(heap, tm[1].root))
       /\ TreeMap_getSize(tm[1]) = Len(InOrderKeys(heap, tm[1]))

\* C19: in a TreeMap, the tree reachable from the root is a search tree: the
\* keys of a node's left subtree are less than its key, those of its right
\* subtree are greater, and no two nodes hold the same key.
C19_SearchTree ==
    impl = "TreeMap"
    => LET nodes == Reach(heap, tm[1].root) IN
       /\ \A n \in nodes :
             /\ \A l \in Reach(heap, heap[n].leftChild) : heap[l].key < heap[n].key
             /\ \A r \in Reach(heap, heap[n].rightChild) : heap[r].key > heap[n].key
       /\ \A a \in nodes, b \in nodes : a # b => heap[a].key # heap[b].key

C19_Witness ==
    /\ impl = "TreeMap" /\ last.op = "removeKey" /\ ~last.err /\ last.key = 1
    /\ tm[1].root # Null /\ heap[tm[1].root].key = 3
    /\ heap[tm[1].root].leftChild # Null
    /\ heap[heap[tm[1].root].leftChild].key = 2

\* The greatest key of keys that is smaller than k.
KeyBelow(keys, k) ==
    CHOOSE p \in keys : p < k /\ \A q \in keys : q < k => q <= p

\* C20: in a TreeMap built by insertions only, decrementing the result of
\* incrementing an iterator at an element gives back that element (from
\* end() it gives the element with the maximum key), and decrementing an
\* iterator at an element other than the minimum gives the element with
\* the greatest smaller key; every --it step does so.
C20_TreeDecrementMirrorsIncrement ==
    /\ [](LET t == tm[1]
              keys == TreeStored(heap, t) IN
          \A n \in Reach(heap, t.root) :
             /\ LET d == TreeIt_decrement(heap, t,
                                          TreeIt_increment(heap, n).node) IN
                ~d.err /\ d.node = n
             /\ n # minElement(heap, t)
                => LET d == TreeIt_decrement(heap, t, n) IN
                   /\ ~d.err
                   /\ heap[d.node].key = KeyBelow(keys, heap[n].key))
    /\ [][last'.op = "dec"
          => LET keys == TreeStored(heap, tm[1]) IN
             /\ it.node = Null /\ keys # {}
                => /\ ~last'.err
                   /\ heap[it'.node].key = KeyBelow(keys, MaxKey + 1)
             /\ it.node # Null /\ it.node # minElement(heap, tm[1])
                => /\ ~last'.err
                   /\ heap[it'.node].key = KeyBelow(keys, heap[it.node].key)]_vars

C20_Witness ==
    /\ impl = "TreeMap" /\ last.op = "dec" /\ ~last.err
    /\ Cardinality(Reach(heap, tm[1].root)) = MaxKey
    /\ it.node = maxElement(heap, tm[1])
    /\ it.node # tm[1].root

\* C21: a TreeMap teardown (the clear() of the destructor, of copy
\* assignment and of move assignment) reads no node that it has already
\* deleted, whatever the shape of the tree, and so never faults.
C21_ClearReadsOnlyLiveNodes ==
    [][impl = "TreeMap"
       => /\ last'.op # "crash"
          /\ last'.op \in {"destroy", "copyAssign", "moveAssign"}
             => ~TreeMap_clear(heap, tm[last'.m]).uaf]_vars

\* C22: an iterator step (++it or --it) that throws std::out_of_range
\* leaves the iterator where it was: afterwards it still compares equal
\* (operator==) to a copy taken before the step, in TreeMap and in HashMap.
C22_FailedStepKeepsPosition ==
    [][last'.op \in {"inc", "dec"} /\ last'.err
       => /\ impl = "TreeMap" => TreeIt_equal(it', it)
          /\ impl = "HashMap" => HashIt_equal(it', it)]_vars

====
